---------------------------- MODULE Spec2Model ----------------------------
(***************************************************************************)
(* A model of src/main.py, the hallucination detector: phase 1 indexes the *)
(* names defined in every .py file under a root (CodebaseIndexer,          *)
(* index_directory), phase 2 walks the changed files and reports every     *)
(* bare identifier that is called or read and is neither indexed nor a     *)
(* built-in (HallucinationDetector, analyze_file, main).                   *)
(*                                                                         *)
(* A syntax tree is a record tree as ast.parse builds it: a node has its   *)
(* class name (kind), the identifier it carries (Name.id, the name of a    *)
(* def or class), lineno, the class of its ctx, and its child nodes in the *)
(* order ast.iter_child_nodes yields them, which is the order              *)
(* NodeVisitor.generic_visit visits them in.  For an Assign the first      *)
(* ntargets children are node.targets, the next is node.value; for a Call  *)
(* the first child is node.func.  The ctx and operator singletons, which   *)
(* generic_visit also reaches, carry no name and have no visitor: they are *)
(* left out.                                                               *)
(***************************************************************************)
EXTENDS Integers, Sequences, FiniteSets, TLC

\* ------------------------------------------------------------- bounds ----
\* Number of .py files under the root.
NumFiles == 2
\* Largest number of entries of --changed_files.
MaxChanged == 2

\* ------------------------------------------------------- syntax trees ----
Node(kind, name, lineno, ctx, ntargets, kids) ==
  [kind |-> kind, name |-> name, lineno |-> lineno, ctx |-> ctx,
   ntargets |-> ntargets, kids |-> kids]

\* lib: a module of definitions. Source text:
\*   1: def foo():
\*   2:     def inner():
\*   3:         x = 1
\*   4:     return inner
\*   5: class Bar:
\*   6:     def method(self):
\*   7:         self.y = 2
\*   8:         a, b = x, x
Tree_lib ==
  Node("Module", "", 0, "", 0, <<
    Node("FunctionDef", "foo", 1, "", 0, <<
      Node("arguments", "", 0, "", 0, << >>),
      Node("FunctionDef", "inner", 2, "", 0, <<
        Node("arguments", "", 0, "", 0, << >>),
        Node("Assign", "", 3, "", 1, <<
          Node("Name", "x", 3, "Store", 0, << >>),
          Node("Constant", "", 3, "", 0, << >>) >>) >>),
      Node("Return", "", 4, "", 0, <<
        Node("Name", "inner", 4, "Load", 0, << >>) >>) >>),
    Node("ClassDef", "Bar", 5, "", 0, <<
      Node("FunctionDef", "method", 6, "", 0, <<
        Node("arguments", "", 0, "", 0, <<
          Node("arg", "", 6, "", 0, << >>) >>),
        Node("Assign", "", 7, "", 1, <<
          Node("Attribute", "", 7, "Store", 0, <<
            Node("Name", "self", 7, "Load", 0, << >>) >>),
          Node("Constant", "", 7, "", 0, << >>) >>),
        Node("Assign", "", 8, "", 1, <<
          Node("Tuple", "", 8, "Store", 0, <<
            Node("Name", "a", 8, "Store", 0, << >>),
            Node("Name", "b", 8, "Store", 0, << >>) >>),
          Node("Tuple", "", 8, "Load", 0, <<
            Node("Name", "x", 8, "Load", 0, << >>),
            Node("Name", "x", 8, "Load", 0, << >>) >>) >>) >>) >>) >>)

\* aio: a coroutine definition, a read before the definition, a call. Source text:
\*   1: w = z
\*   2: async def fetch():
\*   3:     z = len(q)
\*   4: fetch()
Tree_aio ==
  Node("Module", "", 0, "", 0, <<
    Node("Assign", "", 1, "", 1, <<
      Node("Name", "w", 1, "Store", 0, << >>),
      Node("Name", "z", 1, "Load", 0, << >>) >>),
    Node("AsyncFunctionDef", "fetch", 2, "", 0, <<
      Node("arguments", "", 0, "", 0, << >>),
      Node("Assign", "", 3, "", 1, <<
        Node("Name", "z", 3, "Store", 0, << >>),
        Node("Call", "", 3, "", 0, <<
          Node("Name", "len", 3, "Load", 0, << >>),
          Node("Name", "q", 3, "Load", 0, << >>) >>) >>) >>),
    Node("Expr", "", 4, "", 0, <<
      Node("Call", "", 4, "", 0, <<
        Node("Name", "fetch", 4, "Load", 0, << >>) >>) >>) >>)

\* use: a module that defines nothing and only uses names. Source text:
\*   1: foo()
\*   2: baz()
\*   3: Bar
\*   4: print("x")
\*   5: obj.method()
\*   6: (
\*   7:   ghost
\*   8: )()
\*   9: inner
Tree_use ==
  Node("Module", "", 0, "", 0, <<
    Node("Expr", "", 1, "", 0, <<
      Node("Call", "", 1, "", 0, <<
        Node("Name", "foo", 1, "Load", 0, << >>) >>) >>),
    Node("Expr", "", 2, "", 0, <<
      Node("Call", "", 2, "", 0, <<
        Node("Name", "baz", 2, "Load", 0, << >>) >>) >>),
    Node("Expr", "", 3, "", 0, <<
      Node("Name", "Bar", 3, "Load", 0, << >>) >>),
    Node("Expr", "", 4, "", 0, <<
      Node("Call", "", 4, "", 0, <<
        Node("Name", "print", 4, "Load", 0, << >>),
        Node("Constant", "", 4, "", 0, << >>) >>) >>),
    Node("Expr", "", 5, "", 0, <<
      Node("Call", "", 5, "", 0, <<
        Node("Attribute", "", 5, "Load", 0, <<
          Node("Name", "obj", 5, "Load", 0, << >>) >>) >>) >>),
    Node("Expr", "", 6, "", 0, <<
      Node("Call", "", 6, "", 0, <<
        Node("Name", "ghost", 7, "Load", 0, << >>) >>) >>),
    Node("Expr", "", 9, "", 0, <<
      Node("Name", "inner", 9, "Load", 0, << >>) >>) >>)


\* The text a file holds.
TreeOf(text) ==
  CASE text = "lib" -> Tree_lib
    [] text = "aio" -> Tree_aio
    [] text = "use" -> Tree_use

\* What a .py file can hold.  status is what reading and parsing it does:
\* "ok", or the exception open/read/ast.parse raises.  For a file that does
\* not parse, text is its well-formed part, which the program never sees.
Contents ==
  { [status |-> "ok",                 text |-> "lib"],
    [status |-> "ok",                 text |-> "aio"],
    [status |-> "ok",                 text |-> "use"],
    [status |-> "SyntaxError",        text |-> "lib"],
    [status |-> "UnicodeDecodeError", text |-> "use"],
    [status |-> "OSError",            text |-> "lib"] }

\* ------------------------------------------------------ files, paths ----
FileNames == << "a.py", "b.py", "c.py", "d.py" >>
\* The .py files under the root.
Files == { FileNames[k] : k \in 1..NumFiles }
\* A file under the root that is no Python source.
OtherFiles == { "notes.txt" }
\* A path that names no file (a file the change deleted).
MissingPaths == { "deleted.py" }
\* What an entry of --changed_files can be.
ChangedPaths == Files \cup OtherFiles \cup MissingPaths

\* str.endswith(".py") over the paths of the model.
EndsWithPy(path) == path \in Files \cup MissingPaths

SeqsUpTo(S, n) == UNION { [1..k -> S] : k \in 0..n }

\* set(dir(builtins)), cut down to the built-ins the texts mention.
BuiltinNames == { "print", "len" }

\* --------------------------------------------------- CodebaseIndexer ----
RECURSIVE CI_visit(_, _), CI_visit_all(_, _, _)

\* The loop of NodeVisitor.generic_visit over the child nodes.
CI_visit_all(kids, k, names) ==
  IF k > Len(kids) THEN names
  ELSE CI_visit_all(kids, k + 1, CI_visit(kids[k], names))

CI_generic_visit(node, names) == CI_visit_all(node.kids, 1, names)

visit_FunctionDef(node, names) ==
  CI_generic_visit(node, names \cup {node.name})

visit_ClassDef(node, names) ==
  CI_generic_visit(node, names \cup {node.name})

visit_Assign(node, names) ==
  CI_generic_visit(node,
    names \cup { node.kids[t].name :
                   t \in { u \in 1..node.ntargets : node.kids[u].kind = "Name" } })

\* NodeVisitor.visit: the method named after the node's class, or
\* generic_visit when the visitor has none.
CI_visit(node, names) ==
  CASE node.kind = "FunctionDef" -> visit_FunctionDef(node, names)
    [] node.kind = "ClassDef"    -> visit_ClassDef(node, names)
    [] node.kind = "Assign"      -> visit_Assign(node, names)
    [] OTHER                     -> CI_generic_visit(node, names)

\* ----------------------------------------------- HallucinationDetector ----
RECURSIVE HD_visit(_, _, _), HD_visit_all(_, _, _, _)

HD_visit_all(kids, k, codebase_index, found) ==
  IF k > Len(kids) THEN found
  ELSE HD_visit_all(kids, k + 1, codebase_index,
                    HD_visit(kids[k], codebase_index, found))

HD_generic_visit(node, codebase_index, found) ==
  HD_visit_all(node.kids, 1, codebase_index, found)

\* Faulty variant of visit_Call: the built-in set is not consulted.  C4 must
\* not survive it.
visit_Call_no_builtins(node, codebase_index, found) ==
  LET func == node.kids[1] IN
  HD_generic_visit(node, codebase_index,
    IF /\ func.kind = "Name"
       /\ func.name \notin codebase_index
    THEN Append(found, [line |-> node.lineno, name |-> func.name,
                        type |-> "Function Call"])
    ELSE found)

\* Faulty variant of visit_Call: the children of the call are not visited.
\* C6 must not survive it.
visit_Call_no_descent(node, codebase_index, found) ==
  LET func == node.kids[1] IN
  IF /\ func.kind = "Name"
     /\ func.name \notin codebase_index
     /\ func.name \notin BuiltinNames
  THEN Append(found, [line |-> node.lineno, name |-> func.name,
                      type |-> "Function Call"])
  ELSE found

visit_Call(node, codebase_index, found) ==
  LET func == node.kids[1] IN
  HD_generic_visit(node, codebase_index,
    IF /\ func.kind = "Name"
       /\ func.name \notin codebase_index
       /\ func.name \notin BuiltinNames
    THEN Append(found, [line |-> node.lineno, name |-> func.name,
                        type |-> "Function Call"])
    ELSE found)

visit_Name(node, codebase_index, found) ==
  HD_generic_visit(node, codebase_index,
    IF /\ node.ctx = "Load"
       /\ node.name \notin codebase_index
       /\ node.name \notin BuiltinNames
    THEN Append(found, [line |-> node.lineno, name |-> node.name,
                        type |-> "Variable/Object"])
    ELSE found)

HD_visit(node, codebase_index, found) ==
  CASE node.kind = "Call" -> visit_Call(node, codebase_index, found)
    [] node.kind = "Name" -> visit_Name(node, codebase_index, found)
    [] OTHER              -> HD_generic_visit(node, codebase_index, found)

\* ---------------------------------------------------------------- state ----
VARIABLES
  root_enumerable,     \* FALSE: --repo_path is missing or is no directory
  fs,                  \* what each .py file under the root holds
  todo,                \* the files os.walk has still to yield
  attempts,            \* how often index_directory opened each .py file
  defined_names,       \* indexer.defined_names, which main calls codebase_index
  index_warnings,      \* the warnings index_directory printed, per file
  changed_files_list,  \* main's list of --changed_files entries, stripped
  i,                   \* position of main's loop in it (0: not yet split)
  full_path,           \* the file main last handed to analyze_file
  hallucinations,      \* what analyze_file last returned
  all_hallucinations,  \* main's list of findings
  analyze_warnings,    \* the paths analyze_file printed a warning for
  pc,                  \* "indexing", "detecting", "done" or "aborted"
  crash,               \* the exception that left main, if one did
  output,              \* which summary main printed
  rerun,               \* TRUE in the second run over the same files
  prev_index           \* the index the first run built

vars == << root_enumerable, fs, todo, attempts, defined_names, index_warnings,
           changed_files_list, i, full_path, hallucinations,
           all_hallucinations, analyze_warnings, pc, crash, output,
           rerun, prev_index >>

NoCrash == [where |-> "", path |-> "", exc |-> ""]

\* The files os.walk yields: by default it swallows the error of a root it
\* cannot list and yields nothing.
Walked == IF root_enumerable THEN Files \cup OtherFiles ELSE {}

\* The state main starts indexing in.
Start ==
  /\ todo = Walked
  /\ attempts = [f \in Files |-> 0]
  /\ defined_names = {}
  /\ index_warnings = [f \in Files |-> 0]
  /\ changed_files_list = << >>
  /\ i = 0
  /\ full_path = ""
  /\ hallucinations = << >>
  /\ all_hallucinations = << >>
  /\ analyze_warnings = << >>
  /\ pc = "indexing"
  /\ crash = NoCrash
  /\ output = ""

Init ==
  /\ root_enumerable \in BOOLEAN
  /\ fs \in [Files -> Contents]
  /\ rerun = FALSE
  /\ prev_index = {}
  /\ Start

\* ------------------------------------------------------ index_directory ----
\* The body of the try statement for one .py file: the names afterwards,
\* whether the warning was printed, and the exception that escapes, if any.
\* Faulty variant of index_one: the except clause names SyntaxError alone,
\* so a UnicodeDecodeError escapes.  C1 must not survive it.
index_one_decode_escapes(content, names) ==
  CASE content.status = "ok" ->
         [names |-> CI_visit(TreeOf(content.text), names),
          warning |-> FALSE, raised |-> ""]
    [] content.status = "SyntaxError" ->
         [names |-> names, warning |-> TRUE, raised |-> ""]
    [] OTHER ->
         [names |-> names, warning |-> FALSE, raised |-> content.status]

\* Faulty variant of index_one: each file is visited by a fresh indexer, so
\* the names of the file before it are lost.  C9 must not survive it.
index_one_fresh_indexer(content, names) ==
  CASE content.status = "ok" ->
         [names |-> CI_visit(TreeOf(content.text), {}),
          warning |-> FALSE, raised |-> ""]
    [] content.status \in {"SyntaxError", "UnicodeDecodeError"} ->
         [names |-> names, warning |-> TRUE, raised |-> ""]
    [] OTHER ->
         [names |-> names, warning |-> FALSE, raised |-> content.status]

index_one(content, names) ==
  CASE content.status = "ok" ->
         [names |-> CI_visit(TreeOf(content.text), names),
          warning |-> FALSE, raised |-> ""]
    [] content.status \in {"SyntaxError", "UnicodeDecodeError"} ->
         [names |-> names, warning |-> TRUE, raised |-> ""]
    [] OTHER ->
         [names |-> names, warning |-> FALSE, raised |-> content.status]

\* One turn of the loops over os.walk.
IndexFile(f) ==
  /\ pc = "indexing"
  /\ f \in todo
  /\ todo' = todo \ {f}
  /\ IF ~EndsWithPy(f)
     THEN UNCHANGED << attempts, defined_names, index_warnings, pc, crash >>
     ELSE LET r == index_one(fs[f], defined_names) IN
          /\ attempts' = [attempts EXCEPT ![f] = @ + 1]
          /\ defined_names' = r.names
          /\ index_warnings' =
               [index_warnings EXCEPT ![f] = IF r.warning THEN @ + 1 ELSE @]
          /\ IF r.raised = ""
             THEN UNCHANGED << pc, crash >>
             ELSE /\ pc' = "aborted"
                  /\ crash' = [where |-> "index_directory", path |-> f,
                               exc |-> r.raised]
  /\ UNCHANGED << root_enumerable, fs, changed_files_list, i, full_path,
                  hallucinations, all_hallucinations, analyze_warnings,
                  output, rerun, prev_index >>

\* Faulty variant of IndexReturn: index_directory returns while os.walk has
\* files left.  C8 must not survive it.
IndexReturn_early ==
  /\ pc = "indexing"
  /\ \E given \in SeqsUpTo(ChangedPaths, MaxChanged) :
       changed_files_list' = given
  /\ i' = 1
  /\ all_hallucinations' = << >>
  /\ pc' = "detecting"
  /\ UNCHANGED << root_enumerable, fs, todo, attempts, defined_names,
                  index_warnings, full_path, hallucinations,
                  analyze_warnings, crash, output, rerun, prev_index >>

\* index_directory returns; main splits --changed_files, an input the
\* program looks at only now.
IndexReturn ==
  /\ pc = "indexing"
  /\ todo = {}
  /\ \E given \in SeqsUpTo(ChangedPaths, MaxChanged) :
       changed_files_list' = given
  /\ i' = 1
  /\ all_hallucinations' = << >>
  /\ pc' = "detecting"
  /\ UNCHANGED << root_enumerable, fs, todo, attempts, defined_names,
                  index_warnings, full_path, hallucinations,
                  analyze_warnings, crash, output, rerun, prev_index >>

\* --------------------------------------------------------- analyze_file ----
\* What open(full_path) and parsing find: the content of the file, or an
\* OSError when there is no such file.
Opened(path) ==
  IF root_enumerable /\ path \in Files
  THEN fs[path]
  ELSE [status |-> "OSError", text |-> "lib"]

\* Faulty variant of analyze_file: no except clause, so a file that does not
\* parse makes it raise.  C2 must not survive it.
analyze_file_no_except(path, codebase_index) ==
  LET content == Opened(path) IN
  CASE content.status = "ok" ->
         [hallucinations |-> HD_visit(TreeOf(content.text), codebase_index, << >>),
          warning |-> FALSE, raised |-> ""]
    [] OTHER ->
         [hallucinations |-> << >>, warning |-> FALSE, raised |-> content.status]

analyze_file(path, codebase_index) ==
  LET content == Opened(path) IN
  CASE content.status = "ok" ->
         [hallucinations |-> HD_visit(TreeOf(content.text), codebase_index, << >>),
          warning |-> FALSE, raised |-> ""]
    [] content.status \in {"SyntaxError", "UnicodeDecodeError"} ->
         [hallucinations |-> << >>, warning |-> TRUE, raised |-> ""]
    [] OTHER ->
         [hallucinations |-> << >>, warning |-> FALSE, raised |-> content.status]

\* h.copy() with the 'file' key added, for every finding of one file.
WithFile(found, path) ==
  [k \in 1..Len(found) |->
     [line |-> found[k].line, name |-> found[k].name,
      type |-> found[k].type, file |-> path]]

\* Faulty variant of AppendFindings: the findings of a file are put in front
\* of those of the files before it.  C7 must not survive it.
AppendFindings_in_front(all, found, path) == WithFile(found, path) \o all

\* main appends the findings of one file, each with its file, to its list.
AppendFindings(all, found, path) == all \o WithFile(found, path)

\* One turn of main's loop over the changed files.
AnalyzeChanged ==
  /\ pc = "detecting"
  /\ i <= Len(changed_files_list)
  /\ LET stripped_path == changed_files_list[i] IN
     IF ~EndsWithPy(stripped_path)
     THEN /\ i' = i + 1
          /\ UNCHANGED << full_path, hallucinations, all_hallucinations,
                          analyze_warnings, pc, crash >>
     ELSE LET r == analyze_file(stripped_path, defined_names) IN
          /\ full_path' = stripped_path
          /\ analyze_warnings' =
               IF r.warning THEN Append(analyze_warnings, stripped_path)
               ELSE analyze_warnings
          /\ IF r.raised = ""
             THEN /\ hallucinations' = r.hallucinations
                  /\ all_hallucinations' =
                       AppendFindings(all_hallucinations, r.hallucinations,
                                      stripped_path)
                  /\ i' = i + 1
                  /\ UNCHANGED << pc, crash >>
             ELSE /\ pc' = "aborted"
                  /\ crash' = [where |-> "analyze_file", path |-> stripped_path,
                               exc |-> r.raised]
                  /\ UNCHANGED << hallucinations, all_hallucinations, i >>
  /\ UNCHANGED << root_enumerable, fs, todo, attempts, defined_names,
                  index_warnings, changed_files_list, output, rerun, prev_index >>

\* After the loop main prints the findings, or that there are none.
Report ==
  /\ pc = "detecting"
  /\ i > Len(changed_files_list)
  /\ output' = IF all_hallucinations # << >> THEN "found" ELSE "clean"
  /\ pc' = "done"
  /\ UNCHANGED << root_enumerable, fs, todo, attempts, defined_names,
                  index_warnings, changed_files_list, i, full_path,
                  hallucinations, all_hallucinations, analyze_warnings,
                  crash, rerun, prev_index >>

Next ==
  \/ \E f \in Files \cup OtherFiles : IndexFile(f)
  \/ IndexReturn
  \/ AnalyzeChanged
  \/ Report

Spec == Init /\ [][Next]_vars

\* The program is run a second time over the unchanged files.
Restart ==
  /\ pc = "done"
  /\ ~rerun
  /\ rerun' = TRUE
  /\ prev_index' = defined_names
  /\ todo' = Walked
  /\ attempts' = [f \in Files |-> 0]
  /\ defined_names' = {}
  /\ index_warnings' = [f \in Files |-> 0]
  /\ changed_files_list' = << >>
  /\ i' = 0
  /\ full_path' = ""
  /\ hallucinations' = << >>
  /\ all_hallucinations' = << >>
  /\ analyze_warnings' = << >>
  /\ pc' = "indexing"
  /\ crash' = NoCrash
  /\ output' = ""
  /\ UNCHANGED << root_enumerable, fs >>

NextRerun == Next \/ Restart

SpecRerun == Init /\ [][NextRerun]_vars

\* ----------------------------------------------- vocabulary of the claims ----
Unparsable == {"SyntaxError", "UnicodeDecodeError"}

\* The .py files index_directory is to attempt.
UnderRoot == IF root_enumerable THEN Files ELSE {}

Attempted == { f \in Files : attempts[f] > 0 }

\* index_directory has returned.
IndexReturned == i >= 1

\* The nodes of a tree in pre-order.
RECURSIVE Preorder(_), PreorderAll(_, _)

PreorderAll(kids, k) ==
  IF k > Len(kids) THEN << >> ELSE Preorder(kids[k]) \o PreorderAll(kids, k + 1)

Preorder(node) == << node >> \o PreorderAll(node.kids, 1)

RECURSIVE Flatten(_, _)
\* The concatenation of the sequences ss[k], ss[k+1], ...
Flatten(ss, k) == IF k > Len(ss) THEN << >> ELSE ss[k] \o Flatten(ss, k + 1)

Unresolved(name, index) == name \notin index /\ name \notin BuiltinNames

\* A call whose callee is a bare identifier that is neither indexed nor built in.
UnresolvedCall(n, index) ==
  /\ n.kind = "Call"
  /\ n.kids[1].kind = "Name"
  /\ Unresolved(n.kids[1].name, index)

\* A read of a bare identifier that is neither indexed nor built in.
UnresolvedRead(n, index) ==
  /\ n.kind = "Name"
  /\ n.ctx = "Load"
  /\ Unresolved(n.name, index)

\* The findings one node calls for, by itself.
NodeFindings(n, index) ==
  (IF UnresolvedCall(n, index)
   THEN << [line |-> n.lineno, name |-> n.kids[1].name, type |-> "Function Call"] >>
   ELSE << >>)
  \o
  (IF UnresolvedRead(n, index)
   THEN << [line |-> n.lineno, name |-> n.name, type |-> "Variable/Object"] >>
   ELSE << >>)

\* The findings of a tree, node by node in pre-order.
PreorderFindings(tree, index) ==
  LET nodes == Preorder(tree) IN
  Flatten([k \in 1..Len(nodes) |-> NodeFindings(nodes[k], index)], 1)

\* The names a tree declares: every def, async def and class, and every
\* bare-name target of an assignment statement, at any depth.
DeclaredNames(tree) ==
  LET nodes == Preorder(tree) IN
  { nodes[k].name :
      k \in { j \in 1..Len(nodes) :
                nodes[j].kind \in {"FunctionDef", "AsyncFunctionDef", "ClassDef"} } }
  \cup
  UNION { { nodes[k].kids[t].name :
              t \in { u \in 1..nodes[k].ntargets : nodes[k].kids[u].kind = "Name" } } :
          k \in { j \in 1..Len(nodes) : nodes[j].kind = "Assign" } }

\* The files under the root that parse.
Parsed == { f \in UnderRoot : fs[f].status = "ok" }

\* The entries of the changed list main's loop is through with.
Processed == IF i >= 1 THEN SubSeq(changed_files_list, 1, i - 1) ELSE << >>

\* A changed entry that is a .py file which does not parse.
UnparsableEntry(path) == EndsWithPy(path) /\ Opened(path).status \in Unparsable

\* ----------------------------------------------------------------- C1 ----
\* C1: a file that does not parse (SyntaxError, UnicodeDecodeError) never
\* makes index_directory raise; the index is at every moment the union of
\* the names of the files attempted so far that parsed, one warning has been
\* printed for each attempted file that did not parse and none for any
\* other; and when index_directory returns every file under the root has
\* been attempted.
C1_PartialIndex ==
  /\ crash.where = "index_directory" => fs[crash.path].status \notin Unparsable
  /\ defined_names =
       UNION { CI_visit(TreeOf(fs[f].text), {}) :
                 f \in { g \in Attempted : fs[g].status = "ok" } }
  /\ \A f \in Files :
       index_warnings[f] =
         IF f \in Attempted /\ fs[f].status \in Unparsable THEN 1 ELSE 0
  /\ IndexReturned => Attempted = UnderRoot

\* Indexing returned over one file that parses and one that does not.
C1_Witness ==
  /\ IndexReturned
  /\ \E f \in UnderRoot : fs[f].status \in Unparsable /\ index_warnings[f] = 1
  /\ \E f \in UnderRoot : fs[f].status = "ok" /\ fs[f].text = "lib"
  /\ "foo" \in defined_names

\* ----------------------------------------------------------------- C2 ----
RECURSIVE DetectAll(_, _, _)
\* main's loop over a list of changed entries, on a fixed index.
DetectAll(list, k, index) ==
  IF k > Len(list) THEN << >>
  ELSE (IF EndsWithPy(list[k])
        THEN WithFile(analyze_file(list[k], index).hallucinations, list[k])
        ELSE << >>)
       \o DetectAll(list, k + 1, index)

KeepEntry(path) == ~UnparsableEntry(path)

\* C2: a changed file that does not parse never makes analyze_file raise;
\* a warning is printed for it, and the findings main holds after any number
\* of entries are those of the same entries with the unparsable ones
\* removed.
C2_UnparsableChangedFileSkipped ==
  /\ crash.where = "analyze_file" => ~UnparsableEntry(crash.path)
  /\ IndexReturned =>
       /\ all_hallucinations =
            DetectAll(SelectSeq(Processed, KeepEntry), 1, defined_names)
       /\ analyze_warnings = SelectSeq(Processed, UnparsableEntry)

\* The run ended over an unparsable changed file followed by one with
\* findings.
C2_Witness ==
  /\ pc = "done"
  /\ Len(changed_files_list) = 2
  /\ UnparsableEntry(changed_files_list[1])
  /\ analyze_warnings = << changed_files_list[1] >>
  /\ all_hallucinations # << >>
  /\ all_hallucinations[1].file = changed_files_list[2]

\* ----------------------------------------------------------------- C3 ----
\* C3: the run aborts only when the root cannot be enumerated; no failure
\* to open, read or parse one file makes an exception leave main.
C3_OnlyRootAborts == pc = "aborted" => ~root_enumerable

\* ----------------------------------------------------------------- C4 ----
\* C4: the name of every finding, of either type, is neither in the index
\* nor a built-in.
C4_FindingsUnresolved ==
  /\ \A k \in DOMAIN all_hallucinations :
       /\ all_hallucinations[k].name \notin defined_names
       /\ all_hallucinations[k].name \notin BuiltinNames
  /\ \A k \in DOMAIN hallucinations :
       /\ hallucinations[k].name \notin defined_names
       /\ hallucinations[k].name \notin BuiltinNames

\* On an empty index, a file that calls the built-in print was analysed and
\* gave findings of both types.
C4_Witness ==
  /\ defined_names = {}
  /\ full_path \in Files
  /\ Opened(full_path) = [status |-> "ok", text |-> "use"]
  /\ \E k \in DOMAIN all_hallucinations : all_hallucinations[k].type = "Function Call"
  /\ \E k \in DOMAIN all_hallucinations : all_hallucinations[k].type = "Variable/Object"

\* ----------------------------------------------------------------- C5 ----
\* C5: once indexing has returned, the index holds every name that a file
\* which parsed declares: every function (def and async def), every class
\* and every bare-name assignment target, at any depth.
C5_IndexHoldsEveryDeclaration ==
  IndexReturned =>
    \A f \in Parsed : DeclaredNames(TreeOf(fs[f].text)) \subseteq defined_names

\* ----------------------------------------------------------------- C6 ----
\* analyze_file's last result is that of a file that parsed.
AnalysedParsed ==
  /\ pc # "aborted"
  /\ full_path # ""
  /\ Opened(full_path).status = "ok"

\* The calls with an unresolved bare callee in the file last analysed, in
\* pre-order.
UnresolvedCalls ==
  LET nodes == Preorder(TreeOf(Opened(full_path).text))
      Hit(n) == UnresolvedCall(n, defined_names)
  IN  SelectSeq(nodes, Hit)

\* The unresolved reads of a bare identifier in the file last analysed.
UnresolvedReads ==
  LET nodes == Preorder(TreeOf(Opened(full_path).text))
      Hit(n) == UnresolvedRead(n, defined_names)
  IN  SelectSeq(nodes, Hit)

\* The positions of the findings of type Function Call in the last result.
CallPositions ==
  LET IsCall(k) == hallucinations[k].type = "Function Call"
  IN  SelectSeq([k \in 1..Len(hallucinations) |-> k], IsCall)

\* The findings match the calls one to one and in order; the finding of a
\* call is followed at once by a Variable/Object finding of the same name;
\* and there is no finding beyond one per unresolved call and one per
\* unresolved read, so a call with a resolved callee adds none.
C6_Shape ==
  /\ Len(CallPositions) = Len(UnresolvedCalls)
  /\ Len(hallucinations) = Len(UnresolvedCalls) + Len(UnresolvedReads)
  /\ \A j \in 1..Len(CallPositions) :
       LET k == CallPositions[j]
           call == UnresolvedCalls[j]
       IN  /\ hallucinations[k] =
                [line |-> call.lineno, name |-> call.kids[1].name,
                 type |-> "Function Call"]
           /\ k + 1 <= Len(hallucinations)
           /\ hallucinations[k + 1].type = "Variable/Object"
           /\ hallucinations[k + 1].name = hallucinations[k].name

\* C6 as amended: an unresolved bare-callee call gives exactly two findings
\* of the same name, a Function Call at the line where the call expression
\* starts and right after it a Variable/Object at the line of the callee
\* identifier, which is never an earlier line; a resolved callee gives none.
C6_CallReportedTwice ==
  AnalysedParsed =>
    /\ C6_Shape
    /\ \A j \in 1..Len(CallPositions) :
         /\ hallucinations[CallPositions[j] + 1].line = UnresolvedCalls[j].kids[1].lineno
         /\ hallucinations[CallPositions[j] + 1].line >= hallucinations[CallPositions[j]].line

\* C6 as claimed: the two findings of an unresolved call carry the same name
\* and the same line.
C6_CallReportedTwiceSameLine ==
  AnalysedParsed =>
    /\ C6_Shape
    /\ \A j \in 1..Len(CallPositions) :
         hallucinations[CallPositions[j] + 1].line = hallucinations[CallPositions[j]].line

\* A file was analysed in which one call has a resolved callee (foo), one an
\* unresolved callee on the line of the call (baz) and one an unresolved
\* callee on a later line than the call starts on (ghost).
C6_Witness ==
  /\ AnalysedParsed
  /\ Opened(full_path).text = "use"
  /\ "foo" \in defined_names
  /\ \E k \in 1..(Len(hallucinations) - 1) :
       /\ hallucinations[k].type = "Function Call"
       /\ hallucinations[k].name = "baz"
       /\ hallucinations[k + 1].line = hallucinations[k].line
  /\ \E k \in 1..(Len(hallucinations) - 1) :
       /\ hallucinations[k].type = "Function Call"
       /\ hallucinations[k].name = "ghost"
       /\ hallucinations[k + 1].line > hallucinations[k].line

\* ----------------------------------------------------------------- C7 ----
\* The findings the entries of a list call for: file by file in the order of
\* the list, and within a file node by node in pre-order.
ExpectedFindings(list, index) ==
  Flatten([k \in 1..Len(list) |->
             IF EndsWithPy(list[k]) /\ Opened(list[k]).status = "ok"
             THEN WithFile(PreorderFindings(TreeOf(Opened(list[k]).text), index),
                           list[k])
             ELSE << >>], 1)

C7_Ordered ==
  IndexReturned => all_hallucinations = ExpectedFindings(Processed, defined_names)

C7_Kept ==
  (pc' # "indexing") =>
     /\ Len(all_hallucinations') >= Len(all_hallucinations)
     /\ SubSeq(all_hallucinations', 1, Len(all_hallucinations)) = all_hallucinations

\* C7: main's findings are those of the changed files in the order the
\* caller gave the files, each file's in the pre-order of its tree; and no
\* step of a run removes, moves or changes a finding that is in the list.
C7_FindingsOrdered == []C7_Ordered /\ [][C7_Kept]_vars

\* The run ended with findings of two different files, those of the first
\* entry before those of the second, and more than one finding of a file.
C7_Witness ==
  /\ pc = "done"
  /\ Len(changed_files_list) = 2
  /\ changed_files_list[1] # changed_files_list[2]
  /\ Len(all_hallucinations) >= 3
  /\ all_hallucinations[1].file = changed_files_list[1]
  /\ all_hallucinations[Len(all_hallucinations)].file = changed_files_list[2]
  /\ all_hallucinations[1].file = all_hallucinations[2].file

\* ----------------------------------------------------------------- C8 ----
C8_IndexedFirst ==
  (pc \in {"detecting", "done"} \/ crash.where = "analyze_file") =>
     /\ todo = {}
     /\ \A f \in UnderRoot : attempts[f] = 1

C8_IndexStable == (pc = "detecting") => (defined_names' = defined_names)

\* C8: detection starts only after every file under the root has been
\* attempted exactly once, and from then to the end of the run the index
\* does not change.
C8_PhasesSeparate == []C8_IndexedFirst /\ [][C8_IndexStable]_vars

\* The run ended after analysing, on a non-empty index, a file with findings.
C8_Witness ==
  /\ pc = "done"
  /\ defined_names # {}
  /\ all_hallucinations # << >>
  /\ \A f \in Files : attempts[f] = 1

\* ----------------------------------------------------------------- C9 ----
\* C9: a second run of the indexer over the unchanged files, in whatever
\* order it takes them, returns the index the first run returned.
C9_SameIndexAgain == (rerun /\ IndexReturned) => defined_names = prev_index

\* The second run returned an index that two files with different names
\* contributed to.
C9_Witness ==
  /\ rerun
  /\ IndexReturned
  /\ "foo" \in defined_names
  /\ "z" \in defined_names

\* ---------------------------------------------------------------- C10 ----
\* C10: a name that some file which parsed declares (function, class or
\* bare-name assignment target, at any depth) is in no finding.
C10_DeclaredNeverReported ==
  \A k \in DOMAIN all_hallucinations :
    all_hallucinations[k].name \notin
      UNION { DeclaredNames(TreeOf(fs[f].text)) : f \in Parsed }

=============================================================================
